---- MODULE Spec2Model ----
(***************************************************************************)
(* Model of the demo diff pipeline of difflocal (src/src/demo/demoData.ts): *)
(* generateDiffLines, calculateDiffStats and generateDemoResult.            *)
(*                                                                         *)
(* A text is a sequence of one-character strings; "\n" is the line          *)
(* terminator.  A line is the sequence of characters between terminators.  *)
(* Array indices i and j are 0-based as in the source, so originalLines[i] *)
(* of the source is originalLines[i + 1] here.                             *)
(***************************************************************************)
EXTENDS Integers, Sequences, FiniteSets, TLC

\* ---------------------------------------------------------------- bounds
MaxLen == 5          \* longest input text, in characters
MaxStatLines == 3    \* longest line list handed directly to calculateDiffStats
MaxCount == 3        \* largest line count handed directly to calculateDiffStats

NL == "\n"
Alphabet == {"a", NL}
Texts == UNION {[1..n -> Alphabet] : n \in 0..MaxLen}

VARIABLES
    original,      \* generateDemoResult's first argument
    modified,      \* generateDemoResult's second argument
    originalLines, \* const originalLines = original.split('\n')
    modifiedLines, \* const modifiedLines = modified.split('\n')
    pc,            \* position: "loop" (inside generateDiffLines' while),
                   \* "call" (calculateDiffStats about to be called directly),
                   \* "done" (result returned)
    i,             \* index into originalLines
    j,             \* index into modifiedLines
    leftLine,      \* next left line number
    rightLine,     \* next right line number
    lines,         \* DiffLine[] built so far
    stats,         \* DiffStats of the result (NoStats until computed)
    args           \* the line counts handed to calculateDiffStats

\* DemoProvider (DemoContext): its four useState cells.
VARIABLES
    isDemo,          \* whether demo mode is active
    activeScenario,  \* the selected DemoScenario, or Null
    diffResult,      \* the DiffResult shown, or Null
    options          \* the DiffOptions in effect

\* computeDiff's pre-diff normalization, applied once and twice.
VARIABLES
    text,            \* the text handed to the normalization
    normOptions,     \* the DiffOptions it runs under
    normalized,      \* the text normalized once
    renormalized     \* the normalized text normalized again

\* URL sharing: createShareUrl and decodeShareUrl.
VARIABLES
    content,         \* the ShareableContent handed to createShareUrl
    shareResult,     \* what createShareUrl returned (Null: too large)
    hash,            \* the string handed to decodeShareUrl
    decodeResult     \* what decodeShareUrl returned

\* useWorker: the hook's refs and state, the workers it created, and the
\* messages between them.
VARIABLES
    workerRef,       \* workerRef.current: the id of the current Worker
    requestIdRef,    \* requestIdRef.current
    result,          \* useState result
    loading,         \* useState loading
    error,           \* useState error
    workers,         \* per Worker created: handler attached, terminated,
                     \* requests received, responses posted and not delivered
    lastApplied,     \* history: the response onmessage applied last, with
                     \* requestIdRef.current at that moment
    cancelled,       \* history: ids of the requests in flight at a cancel()
    lastEvent        \* history: the operation that ran last

\* DemoPage: the 'scenario' query parameter and the runs of its effect.
VARIABLES
    searchParam,     \* searchParams.get('scenario'): Null or [value |-> id]
    lastDeps,        \* the effect's dependencies when it last ran, or Null
    enterCalls       \* how often the effect has called enterDemo

\* SplitView: the two columns it builds from the diff lines.
VARIABLES
    leftLines,       \* const leftLines: (DiffLine | null)[]
    rightLines       \* const rightLines: (DiffLine | null)[]

Null == [null |-> TRUE]

inputs == <<original, modified, originalLines, modifiedLines>>
diffVars == <<inputs, pc, i, j, leftLine, rightLine, lines, stats, args>>
demoVars == <<isDemo, activeScenario, diffResult, options>>
normVars == <<text, normOptions, normalized, renormalized>>
shareVars == <<content, shareResult, hash, decodeResult>>
hookVars == <<workerRef, requestIdRef, result, loading, error, workers,
              lastApplied, cancelled, lastEvent>>
pageVars == <<searchParam, lastDeps, enterCalls>>
viewVars == <<leftLines, rightLines>>
uiVars == <<pageVars, viewVars>>
\* Everything outside the diff pipeline.
others == <<demoVars, normVars, shareVars, hookVars, uiVars>>
vars == <<diffVars, others>>

\* DiffOptions and DEFAULT_DIFF_OPTIONS / DEMO_DIFF_OPTIONS.
Granularities == {"line", "word", "character"}
DiffOptionsSet ==
    [granularity : Granularities, ignoreWhitespace : BOOLEAN,
     ignoreCase : BOOLEAN, trimTrailingWhitespace : BOOLEAN,
     ignoreBlankLines : BOOLEAN]
DEFAULT_DIFF_OPTIONS ==
    [granularity |-> "line", ignoreWhitespace |-> FALSE,
     ignoreCase |-> FALSE, trimTrailingWhitespace |-> FALSE,
     ignoreBlankLines |-> FALSE]
DEMO_DIFF_OPTIONS == [DEFAULT_DIFF_OPTIONS EXCEPT !.granularity = "line"]


\* ---------------------------------------------------------------- helpers

\* Split as the source computes it, restated for the mutant below.
RECURSIVE SplitKeepAll(_)
SplitKeepAll(s) ==
    IF s = <<>> THEN << <<>> >>
    ELSE LET rest == SplitKeepAll(Tail(s)) IN
         IF Head(s) = NL
         THEN << <<>> >> \o rest
         ELSE << <<Head(s)>> \o Head(rest) >> \o Tail(rest)
\* Mutant of Split: drops a trailing empty segment (as if the final line
\* terminator, or the empty text, produced no line).
SplitDropTrailing(s) ==
    LET all == SplitKeepAll(s) IN
    IF all[Len(all)] = <<>> THEN SubSeq(all, 1, Len(all) - 1) ELSE all

\* String.prototype.split('\n'): the segments between terminators; the empty
\* text gives one empty segment, a final terminator gives a trailing empty one.
RECURSIVE Split(_)
Split(s) ==
    IF s = <<>> THEN << <<>> >>
    ELSE LET rest == Split(Tail(s)) IN
         IF Head(s) = NL
         THEN << <<>> >> \o rest
         ELSE << <<Head(s)>> \o Head(rest) >> \o Tail(rest)

\* Array.prototype.slice(k): the elements from 0-based index k on.
Slice(arr, k) == SubSeq(arr, k + 1, Len(arr))

\* Array.prototype.indexOf(x): 0-based index of the first element equal to x,
\* or -1 when there is none.
IndexOf(arr, x) ==
    IF \E k \in 1..Len(arr) : arr[k] = x
    THEN (CHOOSE k \in 1..Len(arr) :
              arr[k] = x /\ \A h \in 1..(k - 1) : arr[h] # x) - 1
    ELSE -1

origLine == originalLines[i + 1]
modLine == modifiedLines[j + 1]
origInMod == IndexOf(Slice(modifiedLines, j), origLine)
modInOrig == IndexOf(Slice(originalLines, i), modLine)

NoStats == [added |-> 0, removed |-> 0, unchanged |-> 0,
            totalLeft |-> 0, totalRight |-> 0]

\* Number of lines of the given type in a line list.
RECURSIVE CountType(_, _)
CountType(ls, t) ==
    IF ls = <<>> THEN 0
    ELSE (IF Head(ls).type = t THEN 1 ELSE 0) + CountType(Tail(ls), t)

\* calculateDiffStats: the reduce counts by type ('add', 'remove', anything
\* else is unchanged); the totals are the two counts passed in.
calculateDiffStats(ls, originalLineCount, modifiedLineCount) ==
    [added      |-> CountType(ls, "add"),
     removed    |-> CountType(ls, "remove"),
     unchanged  |-> Len(ls) - CountType(ls, "add") - CountType(ls, "remove"),
     totalLeft  |-> originalLineCount,
     totalRight |-> modifiedLineCount]

\* The subsystems at rest: the state each is constructed in, kept by the
\* specifications that do not run it.
DiffIdle ==
    /\ original = <<>>
    /\ modified = <<>>
    /\ originalLines = <<>>
    /\ modifiedLines = <<>>
    /\ pc = "idle"
    /\ i = 0
    /\ j = 0
    /\ leftLine = 1
    /\ rightLine = 1
    /\ lines = <<>>
    /\ stats = NoStats
    /\ args = <<0, 0>>
DemoIdle ==
    /\ isDemo = FALSE
    /\ activeScenario = Null
    /\ diffResult = Null
    /\ options = DEMO_DIFF_OPTIONS
NormIdle ==
    /\ text = <<>>
    /\ normOptions = DEFAULT_DIFF_OPTIONS
    /\ normalized = <<>>
    /\ renormalized = <<>>
ShareIdle ==
    /\ content = Null
    /\ shareResult = Null
    /\ hash = <<>>
    /\ decodeResult = Null
HookIdle ==
    /\ workerRef = Null
    /\ requestIdRef = 0
    /\ result = Null
    /\ loading = FALSE
    /\ error = Null
    /\ workers = <<>>
    /\ lastApplied = Null
    /\ cancelled = {}
    /\ lastEvent = "none"
PageIdle ==
    /\ searchParam = Null
    /\ lastDeps = Null
    /\ enterCalls = 0
ViewIdle ==
    /\ leftLines = <<>>
    /\ rightLines = <<>>
UiIdle == PageIdle /\ ViewIdle
RestIdle == DemoIdle /\ NormIdle /\ ShareIdle /\ HookIdle /\ UiIdle

\* ---------------------------------------------------------------- Init

Init ==
    /\ original \in Texts
    /\ modified \in Texts
    /\ originalLines = Split(original)
    /\ modifiedLines = Split(modified)
    /\ pc = "loop"
    /\ i = 0
    /\ j = 0
    /\ leftLine = 1
    /\ rightLine = 1
    /\ lines = <<>>
    /\ stats = NoStats
    /\ args = <<0, 0>>
    /\ RestIdle

\* ------------------------------------------- generateDiffLines, one iteration

InLoop == pc = "loop" /\ (i < Len(originalLines) \/ j < Len(modifiedLines))

\* Mutant of OnlyModifiedLeft: the modified index is not advanced.
OnlyModifiedLeftStuck ==
    /\ pc = "loop"
    /\ j < Len(modifiedLines)
    /\ i >= Len(originalLines)
    /\ lines' = Append(lines, [type |-> "add", content |-> modLine,
                               lineNumbers |-> [right |-> rightLine]])
    /\ rightLine' = rightLine + 1
    /\ UNCHANGED <<others, inputs, pc, i, j, leftLine, stats, args>>

\* if (i >= originalLines.length): only modified lines left
OnlyModifiedLeft ==
    /\ InLoop
    /\ i >= Len(originalLines)
    /\ lines' = Append(lines, [type |-> "add", content |-> modLine,
                               lineNumbers |-> [right |-> rightLine]])
    /\ rightLine' = rightLine + 1
    /\ j' = j + 1
    /\ UNCHANGED <<others, inputs, pc, i, leftLine, stats, args>>

\* Mutant of OnlyOriginalLeft: the leftover original lines are pushed as 'add'.
OnlyOriginalLeftAsAdd ==
    /\ pc = "loop"
    /\ i < Len(originalLines)
    /\ j >= Len(modifiedLines)
    /\ lines' = Append(lines, [type |-> "add", content |-> origLine,
                               lineNumbers |-> [right |-> rightLine]])
    /\ rightLine' = rightLine + 1
    /\ i' = i + 1
    /\ UNCHANGED <<others, inputs, pc, j, leftLine, stats, args>>

\* else if (j >= modifiedLines.length): only original lines left
OnlyOriginalLeft ==
    /\ InLoop
    /\ i < Len(originalLines)
    /\ j >= Len(modifiedLines)
    /\ lines' = Append(lines, [type |-> "remove", content |-> origLine,
                               lineNumbers |-> [left |-> leftLine]])
    /\ leftLine' = leftLine + 1
    /\ i' = i + 1
    /\ UNCHANGED <<others, inputs, pc, j, rightLine, stats, args>>

\* Mutant of LinesMatch: the right line counter is not advanced.
LinesMatchRightCounterKept ==
    /\ pc = "loop"
    /\ i < Len(originalLines)
    /\ j < Len(modifiedLines)
    /\ origLine = modLine
    /\ lines' = Append(lines, [type |-> "unchanged", content |-> origLine,
                               lineNumbers |-> [left |-> leftLine,
                                                right |-> rightLine]])
    /\ leftLine' = leftLine + 1
    /\ i' = i + 1
    /\ j' = j + 1
    /\ UNCHANGED <<others, inputs, pc, rightLine, stats, args>>

\* else if (origLine === modLine): lines match
LinesMatch ==
    /\ InLoop
    /\ i < Len(originalLines)
    /\ j < Len(modifiedLines)
    /\ origLine = modLine
    /\ lines' = Append(lines, [type |-> "unchanged", content |-> origLine,
                               lineNumbers |-> [left |-> leftLine,
                                                right |-> rightLine]])
    /\ leftLine' = leftLine + 1
    /\ rightLine' = rightLine + 1
    /\ i' = i + 1
    /\ j' = j + 1
    /\ UNCHANGED <<others, inputs, pc, stats, args>>

LinesDiffer ==
    /\ InLoop
    /\ i < Len(originalLines)
    /\ j < Len(modifiedLines)
    /\ origLine # modLine

\* Mutant of Modification: the 'add' half of the pair is not pushed.
ModificationWithoutAdd ==
    /\ pc = "loop"
    /\ i < Len(originalLines)
    /\ j < Len(modifiedLines)
    /\ origLine # modLine
    /\ origInMod = -1
    /\ modInOrig = -1
    /\ lines' = Append(lines, [type |-> "remove", content |-> origLine,
                               lineNumbers |-> [left |-> leftLine]])
    /\ leftLine' = leftLine + 1
    /\ rightLine' = rightLine + 1
    /\ i' = i + 1
    /\ j' = j + 1
    /\ UNCHANGED <<others, inputs, pc, stats, args>>

\* origInMod === -1 && modInOrig === -1: both lines unique, a modification
Modification ==
    /\ LinesDiffer
    /\ origInMod = -1
    /\ modInOrig = -1
    /\ lines' = lines \o
                << [type |-> "remove", content |-> origLine,
                    lineNumbers |-> [left |-> leftLine]],
                   [type |-> "add", content |-> modLine,
                    lineNumbers |-> [right |-> rightLine]] >>
    /\ leftLine' = leftLine + 1
    /\ rightLine' = rightLine + 1
    /\ i' = i + 1
    /\ j' = j + 1
    /\ UNCHANGED <<others, inputs, pc, stats, args>>

\* Mutant of AddNewLine: the pushed line carries origLine instead of modLine.
AddNewLineOrigContent ==
    /\ pc = "loop"
    /\ i < Len(originalLines)
    /\ j < Len(modifiedLines)
    /\ origLine # modLine
    /\ origInMod # -1
    /\ (modInOrig = -1 \/ origInMod <= modInOrig)
    /\ lines' = Append(lines, [type |-> "add", content |-> origLine,
                               lineNumbers |-> [right |-> rightLine]])
    /\ rightLine' = rightLine + 1
    /\ j' = j + 1
    /\ UNCHANGED <<others, inputs, pc, i, leftLine, stats, args>>

\* origInMod !== -1 && (modInOrig === -1 || origInMod <= modInOrig):
\* the original line appears later in modified, so the modified line is new
AddNewLine ==
    /\ LinesDiffer
    /\ origInMod # -1
    /\ (modInOrig = -1 \/ origInMod <= modInOrig)
    /\ lines' = Append(lines, [type |-> "add", content |-> modLine,
                               lineNumbers |-> [right |-> rightLine]])
    /\ rightLine' = rightLine + 1
    /\ j' = j + 1
    /\ UNCHANGED <<others, inputs, pc, i, leftLine, stats, args>>

\* Mutant of RemoveOriginal: the removed line is given a right line number too.
RemoveOriginalBothNumbers ==
    /\ pc = "loop"
    /\ i < Len(originalLines)
    /\ j < Len(modifiedLines)
    /\ origLine # modLine
    /\ ~(origInMod = -1 /\ modInOrig = -1)
    /\ ~(origInMod # -1 /\ (modInOrig = -1 \/ origInMod <= modInOrig))
    /\ lines' = Append(lines, [type |-> "remove", content |-> origLine,
                               lineNumbers |-> [left |-> leftLine,
                                                right |-> rightLine]])
    /\ leftLine' = leftLine + 1
    /\ i' = i + 1
    /\ UNCHANGED <<others, inputs, pc, j, rightLine, stats, args>>

\* else: the modified line appears later in original, so the original line
\* is removed
RemoveOriginal ==
    /\ LinesDiffer
    /\ ~(origInMod = -1 /\ modInOrig = -1)
    /\ ~(origInMod # -1 /\ (modInOrig = -1 \/ origInMod <= modInOrig))
    /\ lines' = Append(lines, [type |-> "remove", content |-> origLine,
                               lineNumbers |-> [left |-> leftLine]])
    /\ leftLine' = leftLine + 1
    /\ i' = i + 1
    /\ UNCHANGED <<others, inputs, pc, j, rightLine, stats, args>>

\* The while loop has ended: generateDiffLines returns lines and
\* generateDemoResult computes the stats from them and from the two
\* split('\n').length values.
generateDemoResult ==
    /\ pc = "loop"
    /\ ~(i < Len(originalLines) \/ j < Len(modifiedLines))
    /\ args' = <<Len(Split(original)), Len(Split(modified))>>
    /\ stats' = calculateDiffStats(lines, Len(Split(original)),
                                   Len(Split(modified)))
    /\ pc' = "done"
    /\ UNCHANGED <<others, inputs, i, j, leftLine, rightLine, lines>>

Next ==
    \/ OnlyModifiedLeft
    \/ OnlyOriginalLeft
    \/ LinesMatch
    \/ Modification
    \/ AddNewLine
    \/ RemoveOriginal
    \/ generateDemoResult

Spec == Init /\ [][Next]_vars

\* ----------------------------------------- calculateDiffStats called directly

\* The line lists a caller may hand to calculateDiffStats (the shape of the
\* list in the repository's own test of it).
StatLine(t, c) ==
    [type |-> t, content |-> c,
     lineNumbers |-> IF t = "add" THEN [right |-> 1]
                     ELSE IF t = "remove" THEN [left |-> 1]
                     ELSE [left |-> 1, right |-> 1]]
StatLines == {StatLine(t, c) : t \in {"add", "remove", "unchanged"},
                               c \in {<<>>, <<"a">>}}
StatLineLists == UNION {[1..n -> StatLines] : n \in 0..MaxStatLines}

StatsInit ==
    /\ original = <<>>
    /\ modified = <<>>
    /\ originalLines = <<>>
    /\ modifiedLines = <<>>
    /\ pc = "call"
    /\ i = 0
    /\ j = 0
    /\ leftLine = 1
    /\ rightLine = 1
    /\ lines \in StatLineLists
    /\ stats = NoStats
    /\ args = <<0, 0>>
    /\ RestIdle

\* calculateDiffStats(lines, originalLineCount, modifiedLineCount)
CallCalculateDiffStats ==
    /\ pc = "call"
    /\ \E originalLineCount \in 0..MaxCount, modifiedLineCount \in 0..MaxCount :
          /\ args' = <<originalLineCount, modifiedLineCount>>
          /\ stats' = calculateDiffStats(lines, originalLineCount,
                                         modifiedLineCount)
    /\ pc' = "done"
    /\ UNCHANGED <<others, inputs, i, j, leftLine, rightLine, lines>>

StatsNext == CallCalculateDiffStats

StatsSpec == StatsInit /\ [][StatsNext]_vars

\* ------------------------------------------------- vocabulary of the claims

\* Number of lines of type t in ls, counted by position.
NumOfType(ls, t) == Cardinality({k \in 1..Len(ls) : ls[k].type = t})

\* The contents, in order, of the lines of ls whose type is in types.
RECURSIVE Project(_, _)
Project(ls, types) ==
    IF ls = <<>> THEN <<>>
    ELSE (IF Head(ls).type \in types THEN <<Head(ls).content>> ELSE <<>>)
         \o Project(Tail(ls), types)

\* Number of line terminators of a text.
NewlineCount(s) == Cardinality({k \in 1..Len(s) : s[k] = NL})

Max(x, y) == IF x >= y THEN x ELSE y
Min(x, y) == IF x <= y THEN x ELSE y

\* Length of a longest common subsequence of two sequences (reference).
RECURSIVE LCSLength(_, _)
LCSLength(a, b) ==
    IF a = <<>> \/ b = <<>> THEN 0
    ELSE IF Head(a) = Head(b) THEN 1 + LCSLength(Tail(a), Tail(b))
    ELSE Max(LCSLength(Tail(a), b), LCSLength(a, Tail(b)))

IsPrefix(a, b) == Len(a) <= Len(b) /\ SubSeq(b, 1, Len(a)) = a

Done == pc = "done"
AllTypesPresent ==
    /\ NumOfType(lines, "add") > 0
    /\ NumOfType(lines, "remove") > 0
    /\ NumOfType(lines, "unchanged") > 0

\* ------------------------------------------------------------------ claims

\* C1: for every pair of inputs the stats returned by generateDemoResult
\* satisfy totalLeft = removed + unchanged and totalRight = added + unchanged.
C1_StatsCoverage ==
    Done => /\ stats.totalLeft = stats.removed + stats.unchanged
            /\ stats.totalRight = stats.added + stats.unchanged

\* C1 witness: a finished diff with added, removed and unchanged lines.
C1_Witness ==
    /\ Done
    /\ stats.added > 0
    /\ stats.removed > 0
    /\ stats.unchanged > 0

\* C2 (as claimed): whatever line counts are passed to calculateDiffStats,
\* the returned totalLeft is the number of remove plus unchanged lines of the
\* list and totalRight the number of add plus unchanged lines of the list.
C2_TotalsFromList ==
    Done => /\ stats.totalLeft = NumOfType(lines, "remove")
                                 + NumOfType(lines, "unchanged")
            /\ stats.totalRight = NumOfType(lines, "add")
                                  + NumOfType(lines, "unchanged")

\* C3 (as claimed): the number of add plus remove lines emitted equals
\* n + m - 2 * L, with L the length of a longest common subsequence of the
\* original and modified line sequences.
C3_Minimal ==
    Done => NumOfType(lines, "add") + NumOfType(lines, "remove")
            = Len(Split(original)) + Len(Split(modified))
              - 2 * LCSLength(Split(original), Split(modified))

\* C4: the contents of the unchanged and remove lines, in output order, are
\* the original's line sequence; those of the unchanged and add lines are
\* the modified's line sequence.
C4_RoundTrip ==
    Done => /\ Project(lines, {"unchanged", "remove"}) = Split(original)
            /\ Project(lines, {"unchanged", "add"}) = Split(modified)

\* C4 witness: a finished diff of at least four lines with all three types.
C4_Witness ==
    /\ Done
    /\ AllTypesPresent
    /\ Len(lines) >= 4
    /\ original # modified

C6_LineNumbersByType ==
    \A k \in 1..Len(lines) :
        /\ lines[k].type = "unchanged"
              => DOMAIN lines[k].lineNumbers = {"left", "right"}
        /\ lines[k].type = "add"
              => DOMAIN lines[k].lineNumbers = {"right"}
        /\ lines[k].type = "remove"
              => DOMAIN lines[k].lineNumbers = {"left"}

\* C6 witness: a returned list holding lines of all three types.
C6_Witness ==
    /\ Done
    /\ AllTypesPresent
    /\ Len(Split(original)) # Len(Split(modified))

\* C7: when one line sequence is a prefix of the other, the common prefix is
\* emitted as unchanged lines with equal left and right numbers, followed
\* only by add lines (modified longer) or only by remove lines (original
\* longer), and the stats count exactly those lines.
C7_PrefixCase ==
    LET o == Split(original)
        m == Split(modified)
        k == Min(Len(o), Len(m))
    IN  (Done /\ (IsPrefix(o, m) \/ IsPrefix(m, o))) =>
          /\ Len(lines) = Max(Len(o), Len(m))
          /\ \A p \in 1..k :
                lines[p] = [type |-> "unchanged", content |-> o[p],
                            lineNumbers |-> [left |-> p, right |-> p]]
          /\ \A p \in (k + 1)..Len(lines) :
                IF Len(m) > Len(o)
                THEN lines[p].type = "add" /\ lines[p].content = m[p]
                ELSE lines[p].type = "remove" /\ lines[p].content = o[p]
          /\ stats = [added |-> Len(m) - k, removed |-> Len(o) - k,
                      unchanged |-> k,
                      totalLeft |-> Len(o), totalRight |-> Len(m)]

\* C7 witness: the original's lines are a proper prefix of the modified's,
\* which has at least two more lines.
C7_Witness ==
    /\ Done
    /\ IsPrefix(Split(original), Split(modified))
    /\ Len(Split(modified)) >= Len(Split(original)) + 2
    /\ Len(original) > 0

\* C8 (as claimed): when the modified line sequence is the original one with
\* one or more leading lines deleted, there is no add line, exactly
\* (original count - modified count) remove lines, and every modified line
\* is unchanged.
C8_LeadingRemoval ==
    LET o == Split(original)
        m == Split(modified)
    IN  (Done /\ Len(o) > Len(m) /\ Slice(o, Len(o) - Len(m)) = m) =>
          /\ NumOfType(lines, "add") = 0
          /\ NumOfType(lines, "remove") = Len(o) - Len(m)
          /\ Project(lines, {"unchanged"}) = m

\* C9 (as claimed): when original and modified have the same number n of
\* lines and differ at exactly one position, the diff has exactly one remove
\* line, one add line and n - 1 unchanged lines.
C9_SingleLineModification ==
    LET o == Split(original)
        m == Split(modified)
    IN  (/\ Done
         /\ Len(o) = Len(m)
         /\ Cardinality({p \in 1..Len(o) : o[p] # m[p]}) = 1) =>
          /\ NumOfType(lines, "remove") = 1
          /\ NumOfType(lines, "add") = 1
          /\ NumOfType(lines, "unchanged") = Len(o) - 1

\* C10 (as claimed): with the empty string as original and a non-empty
\* modified, removed is 0 and every modified line is an add line; with the
\* empty string as modified and a non-empty original, added is 0 and every
\* original line is a remove line.
C10_EmptySide ==
    /\ (Done /\ original = <<>> /\ modified # <<>>) =>
          /\ stats.removed = 0
          /\ Project(lines, {"add"}) = Split(modified)
    /\ (Done /\ modified = <<>> /\ original # <<>>) =>
          /\ stats.added = 0
          /\ Project(lines, {"remove"}) = Split(original)

\* A text that ends with a line terminator, and the text without it.
EndsWithNL(s) == s # <<>> /\ s[Len(s)] = NL
DropFinalNL(s) == SubSeq(s, 1, Len(s) - 1)

\* C11 (as claimed): a final line terminator creates no extra line: for a
\* text ending in "\n" the lines compared and reported are those of the text
\* without that terminator, and the totals count them (so 'a\n' against
\* 'a\n' is one unchanged line with totalLeft = totalRight = 1).
C11_TrailingTerminator ==
    Done =>
      /\ EndsWithNL(original) =>
            /\ Project(lines, {"unchanged", "remove"})
                  = Split(DropFinalNL(original))
            /\ stats.totalLeft = Len(Split(DropFinalNL(original)))
      /\ EndsWithNL(modified) =>
            /\ Project(lines, {"unchanged", "add"})
                  = Split(DropFinalNL(modified))
            /\ stats.totalRight = Len(Split(DropFinalNL(modified)))

\* ------------------------------------------------------- addInlineChanges
\* (docs/sdd/phase-1/005-text-diff-engine.md, text-diff.worker.ts)

MaxInlineLines == 3   \* longest line list handed to addInlineChanges

\* diffChars of the diff package, by its contract: a shortest character edit
\* script, as Change objects {value, added, removed}, one per character here
\* (MergeRuns joins neighbours of the same kind).
RECURSIVE CommonLength(_, _)
CommonLength(a, b) ==
    IF a = <<>> \/ b = <<>> THEN 0
    ELSE IF Head(a) = Head(b) THEN 1 + CommonLength(Tail(a), Tail(b))
    ELSE IF CommonLength(Tail(a), b) >= CommonLength(a, Tail(b))
         THEN CommonLength(Tail(a), b)
         ELSE CommonLength(a, Tail(b))

Change(v, isAdded, isRemoved) ==
    [value |-> v, added |-> isAdded, removed |-> isRemoved]

RECURSIVE CharScript(_, _)
CharScript(a, b) ==
    IF a = <<>> /\ b = <<>> THEN <<>>
    ELSE IF a = <<>>
         THEN <<Change(<<Head(b)>>, TRUE, FALSE)>> \o CharScript(a, Tail(b))
    ELSE IF b = <<>>
         THEN <<Change(<<Head(a)>>, FALSE, TRUE)>> \o CharScript(Tail(a), b)
    ELSE IF Head(a) = Head(b)
         THEN <<Change(<<Head(a)>>, FALSE, FALSE)>>
              \o CharScript(Tail(a), Tail(b))
    ELSE IF CommonLength(Tail(a), b) >= CommonLength(a, Tail(b))
         THEN <<Change(<<Head(a)>>, FALSE, TRUE)>> \o CharScript(Tail(a), b)
         ELSE <<Change(<<Head(b)>>, TRUE, FALSE)>> \o CharScript(a, Tail(b))

RECURSIVE MergeRuns(_)
MergeRuns(cs) ==
    IF Len(cs) <= 1 THEN cs
    ELSE LET more == MergeRuns(Tail(cs)) IN
         IF Head(cs).added = Head(more).added
            /\ Head(cs).removed = Head(more).removed
         THEN <<Change(Head(cs).value \o Head(more).value,
                       Head(cs).added, Head(cs).removed)>> \o Tail(more)
         ELSE <<Head(cs)>> \o more

diffChars(a, b) == MergeRuns(CharScript(a, b))

\* charChanges.filter(c => !c.added).map(c => ({type: c.removed ? 'remove'
\* : 'unchanged', value: c.value}))
RECURSIVE RemoveSide(_)
RemoveSide(cs) ==
    IF cs = <<>> THEN <<>>
    ELSE (IF ~Head(cs).added
          THEN << [type |-> IF Head(cs).removed THEN "remove"
                            ELSE "unchanged",
                   value |-> Head(cs).value] >>
          ELSE <<>>) \o RemoveSide(Tail(cs))

\* charChanges.filter(c => !c.removed).map(c => ({type: c.added ? 'add'
\* : 'unchanged', value: c.value}))
RECURSIVE AddSide(_)
AddSide(cs) ==
    IF cs = <<>> THEN <<>>
    ELSE (IF ~Head(cs).removed
          THEN << [type |-> IF Head(cs).added THEN "add" ELSE "unchanged",
                   value |-> Head(cs).value] >>
          ELSE <<>>) \o AddSide(Tail(cs))

\* line.changes = ch
WithChanges(line, ch) == [changes |-> ch] @@ line

\* Mutant of InlineStep: the pair is annotated whenever the next line is an
\* add, whatever the current line is.
InlineStepAnyBeforeAdd(ls, k) ==
    IF ls[k + 1].type = "add"
    THEN LET charChanges == diffChars(ls[k].content, ls[k + 1].content) IN
         [ls EXCEPT ![k] = WithChanges(@, RemoveSide(charChanges)),
                    ![k + 1] = WithChanges(@, AddSide(charChanges))]
    ELSE ls

\* One iteration of addInlineChanges' for loop, on current = lines[k - 1] and
\* next = lines[k] of the source (k is 1-based here).
InlineStep(ls, k) ==
    IF ls[k].type = "remove" /\ ls[k + 1].type = "add"
    THEN LET charChanges == diffChars(ls[k].content, ls[k + 1].content) IN
         [ls EXCEPT ![k] = WithChanges(@, RemoveSide(charChanges)),
                    ![k + 1] = WithChanges(@, AddSide(charChanges))]
    ELSE ls

\* for (let i = 0; i < lines.length - 1; i++)
RECURSIVE InlineLoop(_, _)
InlineLoop(ls, k) ==
    IF k < Len(ls) THEN InlineLoop(InlineStep(ls, k), k + 1) ELSE ls

addInlineChanges(ls) == InlineLoop(ls, 1)

\* The line lists convertToLines hands to addInlineChanges: freshly built
\* lines, none carrying changes yet.
InlineContents == {<<"a">>, <<"a", "b">>, <<"b", "a">>}
InlineLines == {StatLine(t, c) : t \in {"add", "remove", "unchanged"},
                                 c \in InlineContents}
InlineLineLists == UNION {[1..n -> InlineLines] : n \in 0..MaxInlineLines}

InlineInit ==
    /\ original = <<>>
    /\ modified = <<>>
    /\ originalLines = <<>>
    /\ modifiedLines = <<>>
    /\ pc = "inline"
    /\ i = 0
    /\ j = 0
    /\ leftLine = 1
    /\ rightLine = 1
    /\ lines \in InlineLineLists
    /\ stats = NoStats
    /\ args = <<0, 0>>
    /\ RestIdle

\* addInlineChanges(lines), in place
CallAddInlineChanges ==
    /\ pc = "inline"
    /\ lines' = addInlineChanges(lines)
    /\ pc' = "done"
    /\ UNCHANGED <<others, inputs, i, j, leftLine, rightLine, stats, args>>

InlineNext == CallAddInlineChanges

InlineSpec == InlineInit /\ [][InlineNext]_vars

HasChanges(line) == "changes" \in DOMAIN line

\* C12: after addInlineChanges a line carries character-level changes only
\* if it is a remove line immediately followed by an add line, or an add
\* line immediately preceded by a remove line; so no unchanged line carries
\* them and a remove not immediately followed by an add is unannotated.
C12_InlinePairingScope ==
    Done =>
      \A k \in 1..Len(lines) :
         HasChanges(lines[k]) =>
            \/ /\ lines[k].type = "remove"
               /\ k < Len(lines)
               /\ lines[k + 1].type = "add"
            \/ /\ lines[k].type = "add"
               /\ k > 1
               /\ lines[k - 1].type = "remove"

\* C12 witness: addInlineChanges has annotated a remove/add pair and left an
\* unchanged line and an unpaired remove line of the same list alone.
C12_Witness ==
    /\ Done
    /\ Len(lines) = 3
    /\ lines[1].type = "remove" /\ ~HasChanges(lines[1])
    /\ lines[2].type = "remove" /\ HasChanges(lines[2])
    /\ lines[3].type = "add" /\ HasChanges(lines[3])

\* --------------------------------- generateDemoResult on word-sized samples

MaxSampleLines == 2   \* most lines of a sample text

\* Array.prototype.join('\n')
RECURSIVE Join(_)
Join(ls) ==
    IF ls = <<>> THEN <<>>
    ELSE IF Len(ls) = 1 THEN Head(ls)
    ELSE Head(ls) \o <<NL>> \o Join(Tail(ls))

Cat == <<"c", "a", "t">>
Car == <<"c", "a", "r">>
UpperHello == <<"H", "e", "l", "l", "o">>
LowerHello == <<"h", "e", "l", "l", "o">>
SampleWords == {Cat, Car, UpperHello, LowerHello}
SampleTexts ==
    {Join(ls) : ls \in UNION {[1..n -> SampleWords] : n \in 1..MaxSampleLines}}

\* generateDemoResult(original, modified) entered with sample texts.
SampleInit ==
    /\ original \in SampleTexts
    /\ modified \in SampleTexts
    /\ originalLines = Split(original)
    /\ modifiedLines = Split(modified)
    /\ pc = "loop"
    /\ i = 0
    /\ j = 0
    /\ leftLine = 1
    /\ rightLine = 1
    /\ lines = <<>>
    /\ stats = NoStats
    /\ args = <<0, 0>>
    /\ RestIdle

SampleSpec == SampleInit /\ [][Next]_vars

\* C13 (as claimed): for original 'cat' and modified 'car' the diff that
\* generateDemoResult returns is a remove line 'cat' immediately followed by
\* an add line 'car', each carrying character-level changes that mark 'ca'
\* unchanged and the final character changed.
C13_InlineHighlight ==
    (Done /\ original = Cat /\ modified = Car) =>
      /\ Len(lines) = 2
      /\ lines[1].type = "remove" /\ lines[1].content = Cat
      /\ lines[2].type = "add" /\ lines[2].content = Car
      /\ HasChanges(lines[1])
      /\ lines[1].changes = << [type |-> "unchanged", value |-> <<"c", "a">>],
                               [type |-> "remove", value |-> <<"t">>] >>
      /\ HasChanges(lines[2])
      /\ lines[2].changes = << [type |-> "unchanged", value |-> <<"c", "a">>],
                               [type |-> "add", value |-> <<"r">>] >>

\* ------------------------------------------- generateDemoResult as a function

\* The while loop of generateDiffLines from (ii, jj) with counters (ll, rl)
\* and the lines pushed so far.
RECURSIVE DiffLoop(_, _, _, _, _, _, _)
DiffLoop(ol, ml, ii, jj, ll, rl, acc) ==
    IF ~(ii < Len(ol) \/ jj < Len(ml)) THEN acc
    ELSE IF ii >= Len(ol) THEN
        DiffLoop(ol, ml, ii, jj + 1, ll, rl + 1,
                 Append(acc, [type |-> "add", content |-> ml[jj + 1],
                              lineNumbers |-> [right |-> rl]]))
    ELSE IF jj >= Len(ml) THEN
        DiffLoop(ol, ml, ii + 1, jj, ll + 1, rl,
                 Append(acc, [type |-> "remove", content |-> ol[ii + 1],
                              lineNumbers |-> [left |-> ll]]))
    ELSE IF ol[ii + 1] = ml[jj + 1] THEN
        DiffLoop(ol, ml, ii + 1, jj + 1, ll + 1, rl + 1,
                 Append(acc, [type |-> "unchanged", content |-> ol[ii + 1],
                              lineNumbers |-> [left |-> ll, right |-> rl]]))
    ELSE
        LET oim == IndexOf(Slice(ml, jj), ol[ii + 1])
            mio == IndexOf(Slice(ol, ii), ml[jj + 1])
        IN  IF oim = -1 /\ mio = -1 THEN
                DiffLoop(ol, ml, ii + 1, jj + 1, ll + 1, rl + 1,
                         acc \o
                         << [type |-> "remove", content |-> ol[ii + 1],
                             lineNumbers |-> [left |-> ll]],
                            [type |-> "add", content |-> ml[jj + 1],
                             lineNumbers |-> [right |-> rl]] >>)
            ELSE IF oim # -1 /\ (mio = -1 \/ oim <= mio) THEN
                DiffLoop(ol, ml, ii, jj + 1, ll, rl + 1,
                         Append(acc, [type |-> "add", content |-> ml[jj + 1],
                                      lineNumbers |-> [right |-> rl]]))
            ELSE
                DiffLoop(ol, ml, ii + 1, jj, ll + 1, rl,
                         Append(acc, [type |-> "remove",
                                      content |-> ol[ii + 1],
                                      lineNumbers |-> [left |-> ll]]))

generateDiffLines(o, m) == DiffLoop(Split(o), Split(m), 0, 0, 1, 1, <<>>)

\* The value generateDemoResult(original, modified) returns.
DemoResult(o, m) ==
    LET ls == generateDiffLines(o, m)
    IN  [lines |-> ls,
         stats |-> calculateDiffStats(ls, Len(Split(o)), Len(Split(m)))]

\* ---------------------------------------------------------------- DemoProvider

\* DEMO_SCENARIOS with the source's ids and order. The sample files of the
\* source run to tens of lines each; they are abbreviated here to texts of
\* one or two lines.
DEMO_SCENARIOS ==
    << [id |-> "js-auth", original |-> UpperHello, modified |-> LowerHello],
       [id |-> "ts-cart", original |-> Cat, modified |-> Car],
       [id |-> "py-processing", original |-> Join(<<Cat, UpperHello>>),
        modified |-> Join(<<UpperHello, Car>>)],
       [id |-> "config-package", original |-> Join(<<Cat, Car>>),
        modified |-> Cat] >>

ScenarioIds == {DEMO_SCENARIOS[k].id : k \in 1..Len(DEMO_SCENARIOS)}

\* Arguments a caller passes as scenarioId: the known ids, an id that names
\* no scenario, and undefined (which no scenario's id equals either).
ScenarioIdArgs == ScenarioIds \cup {"unknown", "undefined"}

\* DEMO_SCENARIOS.find((s) => s.id === scenarioId), Null for undefined
Find(scenarioId) ==
    LET S == {k \in 1..Len(DEMO_SCENARIOS) : DEMO_SCENARIOS[k].id = scenarioId}
    IN  IF S = {} THEN Null
        ELSE DEMO_SCENARIOS[CHOOSE k \in S : \A m \in S : k <= m]

OptionFields == DOMAIN DEFAULT_DIFF_OPTIONS

\* Partial<DiffOptions>: any subset of the option fields, each with a value
\* of its type.
PartialOptions ==
    {[k \in S |-> o[k]] : o \in DiffOptionsSet, S \in SUBSET OptionFields}

\* computeDiff(scenario): the options are not an argument.
computeDiff(scenario) == DemoResult(scenario.original, scenario.modified)

DemoInit == DiffIdle /\ RestIdle

\* Mutant of EnterDemoState: setIsDemo(true) is left out.
EnterDemoStateWithoutFlag(scenarioId) ==
    LET found == Find(scenarioId)
        scenario == IF found = Null THEN DEMO_SCENARIOS[1] ELSE found
    IN  /\ activeScenario' = scenario
        /\ diffResult' = computeDiff(scenario)
        /\ UNCHANGED <<isDemo, options>>

\* The state updates of enterDemo(scenarioId)
EnterDemoState(scenarioId) ==
    LET found == Find(scenarioId)
        scenario == IF found = Null THEN DEMO_SCENARIOS[1] ELSE found
    IN  /\ activeScenario' = scenario
        /\ diffResult' = computeDiff(scenario)
        /\ isDemo' = TRUE
        /\ UNCHANGED options

enterDemo(scenarioId) ==
    /\ EnterDemoState(scenarioId)
    /\ UNCHANGED <<diffVars, normVars, shareVars, hookVars, uiVars>>

\* Mutant of exitDemo: the diff result is left in place.
exitDemoKeepingResult ==
    /\ isDemo' = FALSE
    /\ activeScenario' = Null
    /\ UNCHANGED <<diffResult, options, diffVars, normVars, shareVars,
                   hookVars, uiVars>>

exitDemo ==
    /\ isDemo' = FALSE
    /\ activeScenario' = Null
    /\ diffResult' = Null
    /\ UNCHANGED <<options, diffVars, normVars, shareVars, hookVars, uiVars>>

\* The state updates of selectScenario(scenarioId)
SelectScenarioState(scenarioId) ==
    LET scenario == Find(scenarioId)
    IN  /\ IF scenario # Null
           THEN /\ activeScenario' = scenario
                /\ diffResult' = computeDiff(scenario)
           ELSE UNCHANGED <<activeScenario, diffResult>>
        /\ UNCHANGED <<isDemo, options>>

selectScenario(scenarioId) ==
    /\ SelectScenarioState(scenarioId)
    /\ UNCHANGED <<diffVars, normVars, shareVars, hookVars, uiVars>>

\* Mutant of updateOptions: the fields not given fall back to the defaults.
updateOptionsFromDefaults(newOptions) ==
    /\ options' = [k \in OptionFields |->
                     IF k \in DOMAIN newOptions THEN newOptions[k]
                     ELSE DEMO_DIFF_OPTIONS[k]]
    /\ UNCHANGED <<isDemo, activeScenario, diffResult, diffVars, normVars,
                   shareVars, hookVars, uiVars>>

\* setOptions((prev) => ({ ...prev, ...newOptions }))
updateOptions(newOptions) ==
    /\ options' = [k \in OptionFields |->
                     IF k \in DOMAIN newOptions THEN newOptions[k]
                     ELSE options[k]]
    /\ UNCHANGED <<isDemo, activeScenario, diffResult, diffVars, normVars,
                   shareVars, hookVars, uiVars>>

DemoNext ==
    \/ \E scenarioId \in ScenarioIdArgs : enterDemo(scenarioId)
    \/ exitDemo
    \/ \E scenarioId \in ScenarioIdArgs : selectScenario(scenarioId)
    \/ \E newOptions \in PartialOptions : updateOptions(newOptions)

DemoSpec == DemoInit /\ [][DemoNext]_vars

\* C14 (as claimed): with ignoreCase = true in the options in effect, a
\* scenario selection whose texts are 'Hello' and 'hello' shows a diffResult
\* of exactly one unchanged line whose content is the left value 'Hello'.
C14_IgnoreCase ==
    [][(/\ options.ignoreCase
        /\ activeScenario' # activeScenario
        /\ activeScenario' # Null
        /\ activeScenario'.original = UpperHello
        /\ activeScenario'.modified = LowerHello)
       => (/\ diffResult' # Null
           /\ Len(diffResult'.lines) = 1
           /\ diffResult'.lines[1].type = "unchanged"
           /\ diffResult'.lines[1].content = UpperHello)]_vars

\* ------------------------------------------- computeDiff: pre-diff normalization

MaxNormLen == 5   \* longest text that is normalized

Whitespace == {" ", "\t"}
NormAlphabet == {"a", NL} \cup Whitespace
NormTexts == UNION {[1..n -> NormAlphabet] : n \in 0..MaxNormLen}

\* Mutant of trimEnd: at most one trailing whitespace character is removed.
trimEndOnce(line) ==
    IF line # <<>> /\ line[Len(line)] \in Whitespace
    THEN SubSeq(line, 1, Len(line) - 1)
    ELSE line

\* String.prototype.trimEnd on one line
RECURSIVE trimEnd(_)
trimEnd(line) ==
    IF line # <<>> /\ line[Len(line)] \in Whitespace
    THEN trimEnd(SubSeq(line, 1, Len(line) - 1))
    ELSE line

\* line.trim() !== ''
NotBlank(line) == \E k \in 1..Len(line) : line[k] \notin Whitespace

\* text.split('\n').map(line => line.trimEnd()).join('\n')
trimTrailingWhitespace(t) ==
    LET ls == Split(t)
    IN  Join([k \in 1..Len(ls) |-> trimEnd(ls[k])])

\* text.split('\n').filter(line => line.trim() !== '').join('\n')
removeBlankLines(t) == Join(SelectSeq(Split(t), NotBlank))

\* The preprocessing computeDiff applies to each side under options o.
Normalize(t, o) ==
    LET trimmed == IF o.trimTrailingWhitespace
                   THEN trimTrailingWhitespace(t) ELSE t
    IN  IF o.ignoreBlankLines THEN removeBlankLines(trimmed) ELSE trimmed

NormOptionsSet ==
    {[DEFAULT_DIFF_OPTIONS EXCEPT !.trimTrailingWhitespace = t,
                                  !.ignoreBlankLines = b] :
        t \in BOOLEAN, b \in BOOLEAN}

NormInit ==
    /\ DiffIdle /\ DemoIdle /\ UiIdle /\ ShareIdle /\ HookIdle
    /\ text \in NormTexts
    /\ normOptions \in NormOptionsSet
    /\ normalized = <<>>
    /\ renormalized = <<>>

\* The normalization runs on a text that has not been processed yet.
NormalizeText ==
    /\ pc = "idle"
    /\ normalized' = Normalize(text, normOptions)
    /\ pc' = "normalized"
    /\ UNCHANGED <<inputs, i, j, leftLine, rightLine, lines, stats, args,
                   text, normOptions, renormalized, demoVars, shareVars,
                   hookVars, uiVars>>

\* The normalization runs again on its own output.
NormalizeAgain ==
    /\ pc = "normalized"
    /\ renormalized' = Normalize(normalized, normOptions)
    /\ pc' = "done"
    /\ UNCHANGED <<inputs, i, j, leftLine, rightLine, lines, stats, args,
                   text, normOptions, normalized, demoVars, shareVars,
                   hookVars, uiVars>>

NormNext == NormalizeText \/ NormalizeAgain

NormSpec == NormInit /\ [][NormNext]_vars

\* C15: normalization is idempotent: for every text and every combination of
\* trimTrailingWhitespace and ignoreBlankLines, normalizing the normalized
\* text gives the normalized text again.
C15_NormalizeIdempotent == Done => renormalized = normalized

\* Both options are set and the normalization changed the text, trimming a
\* line that stays and dropping a blank one.
C15_Witness ==
    /\ Done
    /\ normOptions.trimTrailingWhitespace
    /\ normOptions.ignoreBlankLines
    /\ text = <<"a", " ", " ", NL, "\t">>
    /\ normalized = <<"a">>

\* ---------------------------------------------------------------- JSON text

\* JavaScript values as they appear in the share payload, tagged by typeof.
\* An object is its keys in insertion order with the value of each.
Undefined == [t |-> "undefined"]
JStr(s) == [t |-> "string", s |-> s]
JBool(b) == [t |-> "boolean", b |-> b]
JNum(n) == [t |-> "number", n |-> n]
JObj(keys, vals) == [t |-> "object", keys |-> keys, vals |-> vals]

Quote == "\""
Backslash == "\\"
DigitChars == <<"0", "1", "2", "3", "4", "5", "6", "7", "8", "9">>
TrueText == <<"t", "r", "u", "e">>
FalseText == <<"f", "a", "l", "s", "e">>
NullText == <<"n", "u", "l", "l">>
JNull == [t |-> "null"]

\* The decimal digits of a natural number
RECURSIVE Digits(_)
Digits(n) ==
    IF n < 10 THEN <<DigitChars[n + 1]>>
    ELSE Digits(n \div 10) \o <<DigitChars[(n % 10) + 1]>>

IsDigit(c) == \E d \in 1..10 : DigitChars[d] = c
DigitValue(c) == (CHOOSE d \in 1..10 : DigitChars[d] = c) - 1

\* The escapes JSON.stringify applies inside a string
RECURSIVE Escape(_)
Escape(s) ==
    IF s = <<>> THEN <<>>
    ELSE LET c == Head(s)
         IN  (IF c = Quote THEN <<Backslash, Quote>>
              ELSE IF c = Backslash THEN <<Backslash, Backslash>>
              ELSE IF c = NL THEN <<Backslash, "n">>
              ELSE <<c>>) \o Escape(Tail(s))

\* JSON.stringify: members in insertion order, undefined members left out
RECURSIVE Stringify(_)
RECURSIVE StringifyMembers(_, _, _, _)
Stringify(v) ==
    CASE v.t = "string" -> <<Quote>> \o Escape(v.s) \o <<Quote>>
      [] v.t = "boolean" -> IF v.b THEN TrueText ELSE FalseText
      [] v.t = "number" -> Digits(v.n)
      [] v.t = "null" -> NullText
      [] v.t = "object" ->
            <<"{">> \o StringifyMembers(v.keys, v.vals, 1, TRUE) \o <<"}">>
StringifyMembers(keys, vals, k, first) ==
    IF k > Len(keys) THEN <<>>
    ELSE IF vals[k] = Undefined
    THEN StringifyMembers(keys, vals, k + 1, first)
    ELSE (IF first THEN <<>> ELSE <<",">>)
         \o <<Quote>> \o Escape(keys[k]) \o <<Quote, ":">>
         \o Stringify(vals[k])
         \o StringifyMembers(keys, vals, k + 1, FALSE)

\* JSON.parse, as a recursive descent over the text from position p. The
\* outcome is [ok, v, pos]: the value read and the position after it.
ParseFail == [ok |-> FALSE]
ParseOk(v, pos) == [ok |-> TRUE, v |-> v, pos |-> pos]
At(s, p) == IF p <= Len(s) THEN s[p] ELSE "EOF"
StartsAt(s, p, word) ==
    /\ p + Len(word) - 1 <= Len(s)
    /\ SubSeq(s, p, p + Len(word) - 1) = word

RECURSIVE ParseString(_, _, _)
ParseString(s, p, acc) ==
    IF p > Len(s) \/ s[p] = NL THEN ParseFail
    ELSE IF s[p] = Quote THEN ParseOk(JStr(acc), p + 1)
    ELSE IF s[p] = Backslash THEN
        IF At(s, p + 1) \in {Quote, Backslash}
        THEN ParseString(s, p + 2, Append(acc, s[p + 1]))
        ELSE IF At(s, p + 1) = "n"
        THEN ParseString(s, p + 2, Append(acc, NL))
        ELSE ParseFail
    ELSE ParseString(s, p + 1, Append(acc, s[p]))

RECURSIVE ParseNumber(_, _, _)
ParseNumber(s, p, n) ==
    IF IsDigit(At(s, p))
    THEN ParseNumber(s, p + 1, 10 * n + DigitValue(s[p]))
    ELSE ParseOk(JNum(n), p)

RECURSIVE ParseValue(_, _)
RECURSIVE ParseMembers(_, _, _, _)
ParseValue(s, p) ==
    LET c == At(s, p)
    IN  IF c = "{" THEN
            IF At(s, p + 1) = "}" THEN ParseOk(JObj(<<>>, <<>>), p + 2)
            ELSE ParseMembers(s, p + 1, <<>>, <<>>)
        ELSE IF c = Quote THEN ParseString(s, p + 1, <<>>)
        ELSE IF StartsAt(s, p, TrueText) THEN ParseOk(JBool(TRUE), p + 4)
        ELSE IF StartsAt(s, p, FalseText) THEN ParseOk(JBool(FALSE), p + 5)
        ELSE IF StartsAt(s, p, NullText) THEN ParseOk(JNull, p + 4)
        ELSE IF IsDigit(c) THEN ParseNumber(s, p, 0)
        ELSE ParseFail
ParseMembers(s, p, keys, vals) ==
    IF At(s, p) # Quote THEN ParseFail
    ELSE LET key == ParseString(s, p + 1, <<>>)
         IN  IF ~key.ok \/ At(s, key.pos) # ":" THEN ParseFail
             ELSE LET val == ParseValue(s, key.pos + 1)
                  IN  IF ~val.ok THEN ParseFail
                      ELSE IF At(s, val.pos) = ","
                      THEN ParseMembers(s, val.pos + 1,
                                        Append(keys, key.v.s),
                                        Append(vals, val.v))
                      ELSE IF At(s, val.pos) = "}"
                      THEN ParseOk(JObj(Append(keys, key.v.s),
                                        Append(vals, val.v)), val.pos + 1)
                      ELSE ParseFail

\* JSON.parse(text): the value, or SyntaxError when it throws
SyntaxError == [t |-> "SyntaxError"]
Parse(s) ==
    LET r == ParseValue(s, 1)
    IN  IF r.ok /\ r.pos = Len(s) + 1 THEN r.v ELSE SyntaxError

\* What the try blocks catch: JSON.parse threw a SyntaxError, or a member
\* of null was read (a TypeError).
Throws(payload) == payload.t \in {"SyntaxError", "null"}

\* obj.key: the member's value (the last one of that name), undefined when
\* there is none or obj is not an object
Get(obj, key) ==
    IF obj.t = "object" /\ \E k \in 1..Len(obj.keys) : obj.keys[k] = key
    THEN LET K == {k \in 1..Len(obj.keys) : obj.keys[k] = key}
         IN  obj.vals[CHOOSE k \in K : \A m \in K : m <= k]
    ELSE Undefined

\* The JavaScript value of a parsed member: strings and booleans as
\* themselves, anything else as parsed.
Js(v) ==
    IF v.t = "string" THEN v.s ELSE IF v.t = "boolean" THEN v.b ELSE v

\* ---------------------------------------------------------------- LZString

\* LZString.compressToEncodedURIComponent / decompressFromEncodedURIComponent
\* are library code. They are modelled by a character code with the same
\* contract: the output uses only the library's URI-safe alphabet,
\* decompression inverts compression, and decompression gives null for
\* text that uses a character outside its code.
keyStrUriSafe ==
    <<"A", "B", "C", "D", "E", "F", "G", "H", "I", "J", "K", "L", "M",
      "N", "O", "P", "Q", "R", "S", "T", "U", "V", "W", "X", "Y", "Z",
      "a", "b", "c", "d", "e", "f", "g", "h", "i", "j", "k", "l", "m",
      "n", "o", "p", "q", "r", "s", "t", "u", "v", "w", "x", "y", "z",
      "0", "1", "2", "3", "4", "5", "6", "7", "8", "9", "+", "-", "$">>

\* The characters JSON text is made of here, in code order
JsonChars ==
    <<"{", "}", Quote, ":", ",", Backslash>> \o DigitChars \o
    <<"a", "b", "c", "d", "e", "f", "g", "h", "i", "j", "k", "l", "m",
      "n", "o", "p", "q", "r", "s", "t", "u", "v", "w", "x", "y", "z">>

CodeOf(c) == keyStrUriSafe[CHOOSE k \in 1..Len(JsonChars) : JsonChars[k] = c]
InCode(c) == \E k \in 1..Len(JsonChars) : keyStrUriSafe[k] = c
CharOf(c) == JsonChars[CHOOSE k \in 1..Len(JsonChars) : keyStrUriSafe[k] = c]

compressToEncodedURIComponent(json) ==
    [k \in 1..Len(json) |-> CodeOf(json[k])]

decompressFromEncodedURIComponent(compressed) ==
    IF \A k \in 1..Len(compressed) : InCode(compressed[k])
    THEN JStr([k \in 1..Len(compressed) |-> CharOf(compressed[k])])
    ELSE Null

\* ---------------------------------------------------------------- share URLs

MAX_URL_LENGTH == 8000
SHARE_VERSION == 1

\* !v for the values met here
Falsy(v) ==
    IF v = Null \/ v = Undefined THEN TRUE
    ELSE CASE v.t = "string" -> v.s = <<>>
           [] v.t = "boolean" -> ~v.b
           [] v.t = "number" -> v.n = 0
           [] OTHER -> FALSE

\* a ?? b
Nullish(a, b) == IF a = Undefined THEN b ELSE a

\* obj?.field of an optional record
Optional(obj, field) ==
    IF field \in DOMAIN obj THEN JStr(obj[field]) ELSE Undefined
MetadataOf(c) == IF "metadata" \in DOMAIN c THEN c.metadata ELSE << >>

\* content.options.granularity[0]
FirstLetter(granularity) ==
    CASE granularity = "line" -> "l"
      [] granularity = "word" -> "w"
      [] granularity = "character" -> "c"

\* The compact payload createShareUrl builds from the content.
PayloadOf(c) ==
    LET o == JObj(<< <<"g">>, <<"w">>, <<"c">>, <<"t">>, <<"b">> >>,
                  << JStr(<<FirstLetter(c.options.granularity)>>),
                     JBool(c.options.ignoreWhitespace),
                     JBool(c.options.ignoreCase),
                     JBool(c.options.trimTrailingWhitespace),
                     JBool(c.options.ignoreBlankLines) >>)
        leftName == Optional(MetadataOf(c), "leftName")
        rightName == Optional(MetadataOf(c), "rightName")
        m == JObj(<< <<"l", "n">>, <<"r", "n">> >>, <<leftName, rightName>>)
        withM == ~Falsy(leftName) \/ ~Falsy(rightName)
    IN  JObj(<< <<"v">>, <<"l">>, <<"r">>, <<"o">> >>
                \o (IF withM THEN << <<"m">> >> ELSE <<>>),
             <<JNum(SHARE_VERSION), JStr(c.left), JStr(c.right), o>>
                \o (IF withM THEN <<m>> ELSE <<>>))

FragmentOf(compressed) ==
    <<"v">> \o Digits(SHARE_VERSION) \o <<".">> \o compressed

\* createShareUrl(content) on a page whose origin and pathname are baseUrl
createShareUrl(c, baseUrl) ==
    LET json == Stringify(PayloadOf(c))
        compressed == compressToEncodedURIComponent(json)
        fullUrl == baseUrl \o <<"#">> \o FragmentOf(compressed)
    IN  IF Len(fullUrl) > MAX_URL_LENGTH THEN Null
        ELSE [url |-> fullUrl, compressed |-> TRUE,
              originalSize |-> Len(json), compressedSize |-> Len(compressed)]

Failure(e) == [success |-> FALSE, error |-> e]
Success(c) == [success |-> TRUE, content |-> c]

\* Mutant of ExpandGranularity: every abbreviation expands to 'line'.
ExpandGranularityToLine(g) == "line"

\* granularityMap[g] ?? 'line'
ExpandGranularity(g) ==
    IF g.t # "string" THEN "line"
    ELSE CASE g.s = <<"l">> -> "line"
           [] g.s = <<"w">> -> "word"
           [] g.s = <<"c">> -> "character"
           [] OTHER -> "line"

decodeV1(compressed) ==
    LET json == decompressFromEncodedURIComponent(compressed)
    IN  IF Falsy(json) THEN Failure("decompression_failed")
        ELSE
        LET payload == Parse(json.s)
            o == Get(payload, <<"o">>)
            m == Get(payload, <<"m">>)
            decoded ==
                [left |-> Get(payload, <<"l">>).s,
                 right |-> Get(payload, <<"r">>).s,
                 options |->
                   [granularity |->
                      ExpandGranularity(Nullish(Get(o, <<"g">>),
                                                JStr(<<"l">>))),
                    ignoreWhitespace |->
                      Js(Nullish(Get(o, <<"w">>), JBool(FALSE))),
                    ignoreCase |->
                      Js(Nullish(Get(o, <<"c">>), JBool(FALSE))),
                    trimTrailingWhitespace |->
                      Js(Nullish(Get(o, <<"t">>), JBool(FALSE))),
                    ignoreBlankLines |->
                      Js(Nullish(Get(o, <<"b">>), JBool(FALSE)))]]
        IN  IF Throws(payload) THEN Failure("invalid_format")
            ELSE IF Get(payload, <<"l">>).t # "string"
                    \/ Get(payload, <<"r">>).t # "string"
            THEN Failure("invalid_format")
            ELSE IF ~Falsy(m)
            THEN Success([metadata |->
                            [leftName |-> Js(Get(m, <<"l", "n">>)),
                             rightName |-> Js(Get(m, <<"r", "n">>))]]
                         @@ decoded)
            ELSE Success(decoded)

decodeLegacy(compressed) ==
    LET json == decompressFromEncodedURIComponent(compressed)
    IN  IF Falsy(json) THEN Failure("decompression_failed")
        ELSE
        LET payload == Parse(json.s)
        IN  IF Throws(payload) THEN Failure("invalid_format")
            ELSE Success(
              [left |-> Js(Nullish(Get(payload, <<"l", "e", "f", "t">>),
                                   Nullish(Get(payload, <<"l">>),
                                           JStr(<<>>)))),
               right |-> Js(Nullish(Get(payload, <<"r", "i", "g", "h", "t">>),
                                    Nullish(Get(payload, <<"r">>),
                                            JStr(<<>>)))),
               options |-> DEFAULT_DIFF_OPTIONS])

\* The number of digits of s from position p on
RECURSIVE DigitRun(_, _)
DigitRun(s, p) == IF IsDigit(At(s, p)) THEN 1 + DigitRun(s, p + 1) ELSE 0

\* Mutant of decodeShareUrl: every version number is decoded as version 1.
decodeShareUrlAnyVersion(h) ==
    LET fragment == IF At(h, 1) = "#" THEN Tail(h) ELSE h
        digits == DigitRun(fragment, 2)
        versionMatch == /\ At(fragment, 1) = "v"
                        /\ digits >= 1
                        /\ At(fragment, digits + 2) = "."
        compressed == SubSeq(fragment, digits + 3, Len(fragment))
    IN  IF fragment = <<>> THEN Failure("invalid_format")
        ELSE IF ~versionMatch THEN decodeLegacy(fragment)
        ELSE decodeV1(compressed)

decodeShareUrl(h) ==
    LET fragment == IF At(h, 1) = "#" THEN Tail(h) ELSE h
        digits == DigitRun(fragment, 2)
        versionMatch == /\ At(fragment, 1) = "v"
                        /\ digits >= 1
                        /\ At(fragment, digits + 2) = "."
        version == ParseNumber(fragment, 2, 0).v.n
        compressed == SubSeq(fragment, digits + 3, Len(fragment))
    IN  IF fragment = <<>> THEN Failure("invalid_format")
        ELSE IF ~versionMatch THEN decodeLegacy(fragment)
        ELSE IF version = 1 THEN decodeV1(compressed)
        ELSE Failure("version_unsupported")

MaxShareLen == 1   \* longest left/right text that is shared

ShareAlphabet == {"a", Quote, NL}
ShareTexts == UNION {[1..n -> ShareAlphabet] : n \in 0..MaxShareLen}
ShareMetadata == {[leftName |-> <<"a">>], [leftName |-> <<>>, rightName |-> <<"b">>]}
ShareContents ==
    [left : ShareTexts, right : ShareTexts, options : DiffOptionsSet]
    \cup [left : ShareTexts, right : {<<"a">>}, options : {DEFAULT_DIFF_OPTIONS},
          metadata : ShareMetadata]

\* window.location.origin + window.location.pathname: a short one, and a
\* long one that leaves room for the smaller payloads only.
Origin == <<"h", "t", "t", "p", "s", ":", "/", "/", "d">>
BaseUrl(pathLength) ==
    Origin \o [k \in 1..pathLength |-> IF k = 1 THEN "/" ELSE "p"]
LongPath == MAX_URL_LENGTH - 95
BaseUrls == {BaseUrl(1), BaseUrl(LongPath)}

\* location.hash of a URL: from the first '#' on
HashOf(url) ==
    LET H == {k \in 1..Len(url) : url[k] = "#"}
    IN  SubSeq(url, CHOOSE k \in H : \A m \in H : k <= m, Len(url))

\* Fragments that createShareUrl did not produce.
Versioned(n, compressed) == <<"v">> \o Digits(n) \o <<".">> \o compressed
Packed(v) == compressToEncodedURIComponent(Stringify(v))
BadGranularityPayload ==
    JObj(<< <<"v">>, <<"l">>, <<"r">>, <<"o">> >>,
         << JNum(1), JStr(<<"a">>), JStr(<<"a", "a">>),
            JObj(<< <<"g">>, <<"w">>, <<"c">>, <<"t">>, <<"b">> >>,
                 << JStr(<<"x">>), JBool(FALSE), JBool(FALSE),
                    JBool(FALSE), JBool(FALSE) >>) >>)
NoOptionsPayload ==
    JObj(<< <<"v">>, <<"l">>, <<"r">> >>,
         << JNum(1), JStr(<<"a">>), JStr(<<>>) >>)
NumberLeftPayload ==
    JObj(<< <<"v">>, <<"l">>, <<"r">> >>,
         << JNum(1), JNum(1), JStr(<<"a">>) >>)
LegacyPayload ==
    JObj(<< <<"l", "e", "f", "t">>, <<"r", "i", "g", "h", "t">> >>,
         << JStr(<<"a">>), JStr(<<"a", "a">>) >>)
BadGranularityHash == <<"#">> \o Versioned(1, Packed(BadGranularityPayload))
ForeignHashes ==
    { <<>>, <<"#">>,
      BadGranularityHash,
      Versioned(1, Packed(NoOptionsPayload)),
      <<"#">> \o Versioned(1, Packed(NumberLeftPayload)),
      Versioned(1, <<>>),
      Versioned(1, <<"!">>),
      Versioned(1, <<"A">>),
      Versioned(2, Packed(NoOptionsPayload)),
      Versioned(10, <<"!">>),
      <<"#", "v", ".", "A">>,
      <<"#">> \o Packed(LegacyPayload),
      Packed(JNum(7)),
      Packed(JNull),
      Versioned(1, Packed(JNull)),
      <<"#">> \o Versioned(0, <<>>),
      <<"v", "1">>,
      <<"!">> }

ShareInit ==
    /\ DiffIdle /\ DemoIdle /\ UiIdle /\ NormIdle /\ HookIdle
    /\ shareResult = Null
    /\ decodeResult = Null
    /\ \/ content \in ShareContents /\ hash = <<>>
       \/ content = Null /\ hash \in ForeignHashes

\* createShareUrl(content) is called on some page.
CallCreateShareUrl ==
    /\ pc = "idle"
    /\ content # Null
    /\ \E baseUrl \in BaseUrls : shareResult' = createShareUrl(content, baseUrl)
    /\ pc' = "shared"
    /\ UNCHANGED <<inputs, i, j, leftLine, rightLine, lines, stats, args,
                   content, hash, decodeResult, demoVars, normVars, hookVars,
                   uiVars>>

\* The URL that was created is opened: decodeShareUrl runs on its fragment,
\* with or without the leading '#'.
CallDecodeShareUrl ==
    /\ pc = "shared"
    /\ shareResult # Null
    /\ \E h \in {HashOf(shareResult.url), Tail(HashOf(shareResult.url))} :
          /\ hash' = h
          /\ decodeResult' = decodeShareUrl(h)
    /\ pc' = "done"
    /\ UNCHANGED <<inputs, i, j, leftLine, rightLine, lines, stats, args,
                   content, shareResult, demoVars, normVars, hookVars,
                   uiVars>>

\* A URL from elsewhere is opened: decodeShareUrl runs on its fragment.
CallDecodeForeignHash ==
    /\ pc = "idle"
    /\ content = Null
    /\ decodeResult' = decodeShareUrl(hash)
    /\ pc' = "done"
    /\ UNCHANGED <<inputs, i, j, leftLine, rightLine, lines, stats, args,
                   content, shareResult, hash, demoVars, normVars, hookVars,
                   uiVars>>

ShareNext == CallCreateShareUrl \/ CallDecodeShareUrl \/ CallDecodeForeignHash

ShareSpec == ShareInit /\ [][ShareNext]_vars

\* C16 (as claimed): a decoded share payload whose granularity is not one
\* of line, word, character is rejected with a failure and is never given a
\* default granularity.
C16_MalformedRejected ==
    (pc = "done" /\ hash = BadGranularityHash) => ~decodeResult.success

\* The payload carried by a share URL
PayloadIn(url) ==
    LET fragment == Tail(HashOf(url))
        compressed == SubSeq(fragment, DigitRun(fragment, 2) + 3,
                             Len(fragment))
    IN  Parse(decompressFromEncodedURIComponent(compressed).s)

\* C20: whenever createShareUrl(content) returns a result, decodeShareUrl on
\* the fragment of result.url succeeds with left, right and all five diff
\* options equal to those of content, and the payload in the URL has no
\* member besides v, l, r, o and m.
C20_ShareRoundTrip ==
    (pc = "done" /\ content # Null) =>
      /\ decodeResult.success
      /\ decodeResult.content.left = content.left
      /\ decodeResult.content.right = content.right
      /\ decodeResult.content.options = content.options
      /\ \A k \in 1..Len(PayloadIn(shareResult.url).keys) :
            PayloadIn(shareResult.url).keys[k]
              \in {<<"v">>, <<"l">>, <<"r">>, <<"o">>, <<"m">>}

\* A shared word-granularity comparison of a newline against a quote, opened
\* from location.hash.
C20_Witness ==
    /\ pc = "done"
    /\ content # Null
    /\ content.left = <<NL>>
    /\ content.right = <<Quote>>
    /\ content.options.granularity = "word"
    /\ content.options.ignoreCase
    /\ ~content.options.ignoreBlankLines
    /\ hash[1] = "#"
    /\ decodeResult.success

\* ---------------------------------------------------------------- useWorker

MaxRequests == 3   \* most execute calls
MaxWorkers == 3    \* most workers created over the hook's life

\* What a request asks the worker to compute: an input computeDiff handles,
\* one it throws on, and one of more than 100000 characters.
WorkerInputs == {"ok", "bad", "large"}

\* createWorker(): a running worker with nothing queued in either direction.
\* handler tells whether the hook has set its onmessage.
NewWorker(handler) ==
    [handler |-> handler, terminated |-> FALSE, inbox |-> <<>>,
     outbox |-> <<>>]

\* worker.terminate(): the worker stops, its queued tasks are discarded and
\* the messages it posted that have not been dispatched yet are dropped.
Terminated(w) ==
    [w EXCEPT !.terminated = TRUE, !.inbox = <<>>, !.outbox = <<>>]

IdsIn(q) == {q[k].id : k \in 1..Len(q)}
Current == workers[workerRef.worker]

\* The requests the current worker has not answered to the hook yet
InFlight ==
    IF workerRef = Null THEN {}
    ELSE IdsIn(Current.inbox) \cup IdsIn(Current.outbox)

HookInit ==
    DiffIdle /\ DemoIdle /\ NormIdle /\ ShareIdle /\ HookIdle /\ UiIdle

\* The effect runs: on mount, and again whenever createWorker or options is
\* a new reference (options defaults to a fresh {} on every render). The
\* previous run's cleanup terminates workerRef.current first.
useEffect ==
    /\ Len(workers) < MaxWorkers
    /\ workers' =
         Append(IF workerRef = Null THEN workers
                ELSE [workers EXCEPT ![workerRef.worker] = Terminated(@)],
                NewWorker(TRUE))
    /\ workerRef' = [worker |-> Len(workers) + 1]
    /\ lastEvent' = "effect"
    /\ UNCHANGED <<requestIdRef, result, loading, error, lastApplied,
                   cancelled, diffVars, demoVars, normVars, shareVars,
                   uiVars>>

execute(input) ==
    /\ requestIdRef < MaxRequests
    /\ requestIdRef' = requestIdRef + 1
    /\ loading' = TRUE
    /\ error' = Null
    /\ workers' =
         IF workerRef = Null THEN workers
         ELSE [workers EXCEPT ![workerRef.worker].inbox =
                 Append(@, [type |-> "compute", id |-> requestIdRef + 1,
                            payload |-> input])]
    /\ lastEvent' = "execute"
    /\ UNCHANGED <<workerRef, result, lastApplied, cancelled, diffVars,
                   demoVars, normVars, shareVars, uiVars>>

\* Mutant of cancel: the old worker is replaced but not terminated.
cancelWithoutTerminate ==
    /\ Len(workers) < MaxWorkers
    /\ cancelled' = cancelled \cup InFlight
    /\ workers' = Append(workers, NewWorker(FALSE))
    /\ workerRef' = [worker |-> Len(workers) + 1]
    /\ loading' = FALSE
    /\ lastEvent' = "cancel"
    /\ UNCHANGED <<requestIdRef, result, error, lastApplied, diffVars,
                   demoVars, normVars, shareVars, uiVars>>

\* cancel(): terminate the current worker and put a new one in its place.
\* The new worker gets no onmessage handler.
cancel ==
    /\ Len(workers) < MaxWorkers
    /\ cancelled' = cancelled \cup InFlight
    /\ workers' =
         Append(IF workerRef = Null THEN workers
                ELSE [workers EXCEPT ![workerRef.worker] = Terminated(@)],
                NewWorker(FALSE))
    /\ workerRef' = [worker |-> Len(workers) + 1]
    /\ loading' = FALSE
    /\ lastEvent' = "cancel"
    /\ UNCHANGED <<requestIdRef, result, error, lastApplied, diffVars,
                   demoVars, normVars, shareVars, uiVars>>

\* Mutant of Responses: the type of the request is not looked at.
ResponsesToAnyType(request) ==
    CASE request.payload = "bad" ->
            << [type |-> "error", id |-> request.id] >>
      [] request.payload = "large" ->
            << [type |-> "progress", id |-> request.id],
               [type |-> "result", id |-> request.id] >>
      [] OTHER ->
            << [type |-> "result", id |-> request.id] >>

\* The messages the worker posts for one request
Responses(request) ==
    IF request.type # "compute" THEN <<>>
    ELSE CASE request.payload = "bad" ->
                << [type |-> "error", id |-> request.id] >>
           [] request.payload = "large" ->
                << [type |-> "progress", id |-> request.id],
                   [type |-> "result", id |-> request.id] >>
           [] OTHER ->
                << [type |-> "result", id |-> request.id] >>

\* self.onmessage in worker k: the next request is handled.
workerOnMessage(k) ==
    /\ ~workers[k].terminated
    /\ workers[k].inbox # <<>>
    /\ workers' = [workers EXCEPT
                     ![k].inbox = Tail(@),
                     ![k].outbox = @ \o Responses(Head(workers[k].inbox))]
    /\ lastEvent' = "compute"
    /\ UNCHANGED <<workerRef, requestIdRef, result, loading, error,
                   lastApplied, cancelled, diffVars, demoVars, normVars,
                   shareVars, uiVars>>

\* case 'result'
onResult(msg) ==
    /\ result' = [from |-> msg.id]
    /\ loading' = FALSE
    /\ lastApplied' = [type |-> "result", id |-> msg.id,
                       latest |-> requestIdRef]
    /\ lastEvent' = "result"
    /\ UNCHANGED error

\* Mutant of onError: the displayed result is cleared as well.
onErrorClearingResult(msg) ==
    /\ error' = [message |-> msg.id]
    /\ loading' = FALSE
    /\ result' = Null
    /\ lastApplied' = [type |-> "error", id |-> msg.id,
                       latest |-> requestIdRef]
    /\ lastEvent' = "error"

\* case 'error'
onError(msg) ==
    /\ error' = [message |-> msg.id]
    /\ loading' = FALSE
    /\ lastApplied' = [type |-> "error", id |-> msg.id,
                       latest |-> requestIdRef]
    /\ lastEvent' = "error"
    /\ UNCHANGED result

\* case 'progress': options.onProgress, no state of the hook changes
onProgress(msg) ==
    /\ lastEvent' = "progress"
    /\ UNCHANGED <<result, loading, error, lastApplied>>

\* The next message worker k posted is dispatched on the main thread: to
\* the hook's onmessage when the worker has one, to nothing otherwise.
hookOnMessage(k) ==
    /\ ~workers[k].terminated
    /\ workers[k].outbox # <<>>
    /\ workers' = [workers EXCEPT ![k].outbox = Tail(@)]
    /\ LET msg == Head(workers[k].outbox)
       IN  IF ~workers[k].handler
           THEN /\ lastEvent' = "dropped"
                /\ UNCHANGED <<result, loading, error, lastApplied>>
           ELSE CASE msg.type = "result" -> onResult(msg)
                  [] msg.type = "error" -> onError(msg)
                  [] OTHER -> onProgress(msg)
    /\ UNCHANGED <<workerRef, requestIdRef, cancelled, diffVars, demoVars,
                   normVars, shareVars, uiVars>>

HookNext ==
    \/ useEffect
    \/ \E input \in WorkerInputs : execute(input)
    \/ cancel
    \/ \E k \in 1..Len(workers) : workerOnMessage(k)
    \/ \E k \in 1..Len(workers) : hookOnMessage(k)

HookSpec == HookInit /\ [][HookNext]_vars

\* C17 (as claimed): the hook's result and error state is only ever set
\* from a response that carries the id of the most recent execute call,
\* never from the response to a superseded request.
C17_NoSupersededResult ==
    lastApplied # Null => lastApplied.id = lastApplied.latest

\* C18: once cancel() has been called while a request was in flight, no
\* result or error message of that request is ever applied to the hook's
\* state.
C18_CancelledNeverApplied ==
    lastApplied # Null => lastApplied.id \notin cancelled

\* A request was in flight when cancel() ran, and a later request's
\* response has been applied since.
C18_Witness ==
    /\ cancelled # {}
    /\ lastApplied # Null
    /\ \A id \in cancelled : id < lastApplied.id

\* C19: when an 'error' response is applied, and when a new execute starts,
\* the result state keeps its value; only error and loading change.
C19_FailureKeepsResult ==
    [][/\ lastEvent' = "error" =>
            result' = result /\ error' # Null /\ loading' = FALSE
       /\ lastEvent' = "execute" =>
            result' = result /\ error' = Null /\ loading' = TRUE]_vars

\* An error response has just been applied while an earlier result is
\* displayed.
C19_Witness ==
    /\ lastEvent = "error"
    /\ result # Null
    /\ error # Null
    /\ error.message > result.from

\* The fragment decodeShareUrl works on, and its version prefix 'v<N>.'
FragmentIn(h) == IF h # <<>> /\ h[1] = "#" THEN Tail(h) ELSE h
HasVersionPrefix(f) ==
    /\ f # <<>>
    /\ f[1] = "v"
    /\ DigitRun(f, 2) >= 1
    /\ At(f, DigitRun(f, 2) + 2) = "."
VersionIn(f) == ParseNumber(f, 2, 0).v.n
DecodeErrors == {"invalid_format", "decompression_failed",
                 "version_unsupported"}

\* C21: decodeShareUrl returns, for every hash, either a success with a
\* content or a failure with one of the three errors; an empty fragment
\* gives invalid_format and a fragment with a version prefix 'v<N>.', N not
\* 1, gives version_unsupported whatever follows the prefix.
C21_DecodeTotal ==
    pc = "done" =>
      /\ DOMAIN decodeResult \in {{"success", "content"}, {"success", "error"}}
      /\ decodeResult.success = ("content" \in DOMAIN decodeResult)
      /\ ~decodeResult.success => decodeResult.error \in DecodeErrors
      /\ FragmentIn(hash) = <<>> =>
            decodeResult = Failure("invalid_format")
      /\ (HasVersionPrefix(FragmentIn(hash))
          /\ VersionIn(FragmentIn(hash)) # 1) =>
            decodeResult = Failure("version_unsupported")

\* A hash with the two-digit version prefix 'v10.' followed by text that
\* cannot be decompressed has been decoded.
C21_Witness ==
    /\ pc = "done"
    /\ hash = Versioned(10, <<"!">>)
    /\ decodeResult = Failure("version_unsupported")

\* The line numbers of one side, in output order, of the lines of ls whose
\* type is in types.
RECURSIVE SideNumbers(_, _, _)
SideNumbers(ls, types, side) ==
    IF ls = <<>> THEN <<>>
    ELSE (IF Head(ls).type \in types
          THEN <<Head(ls).lineNumbers[side]>> ELSE <<>>)
         \o SideNumbers(Tail(ls), types, side)

\* C22: at every point of generateDiffLines the left numbers of the remove
\* and unchanged lines emitted so far are 1, 2, ... up to the original lines
\* consumed, the right numbers of the add and unchanged lines are 1, 2, ...
\* up to the modified lines consumed, each counter is one more than the
\* lines of its side; at the end these are exactly 1..n and 1..m.
C22_LineCounters ==
    LET lefts == SideNumbers(lines, {"remove", "unchanged"}, "left")
        rights == SideNumbers(lines, {"add", "unchanged"}, "right")
    IN  pc \in {"loop", "done"} =>
          /\ lefts = [k \in 1..i |-> k]
          /\ rights = [k \in 1..j |-> k]
          /\ leftLine = i + 1
          /\ rightLine = j + 1
          /\ Done => i = Len(Split(original)) /\ j = Len(Split(modified))

\* A finished diff of texts with different line counts that has lines of
\* all three types.
C22_Witness ==
    /\ Done
    /\ AllTypesPresent
    /\ Len(originalLines) > Len(modifiedLines)
    /\ Len(modifiedLines) >= 2

\* ------------------------------------------------------- the text-diff worker

\* WorkerRequest.type
RequestTypes == {"compute", "cancel"}

\* One worker, driven by a page that posts requests of any type to it.
WorkerInit ==
    /\ DiffIdle /\ DemoIdle /\ UiIdle /\ NormIdle /\ ShareIdle
    /\ workers = <<NewWorker(FALSE)>>
    /\ workerRef = [worker |-> 1]
    /\ requestIdRef = 0
    /\ result = Null
    /\ loading = FALSE
    /\ error = Null
    /\ lastApplied = Null
    /\ cancelled = {}
    /\ lastEvent = "none"

\* worker.postMessage({ type, id, payload })
postMessage(type, input) ==
    /\ requestIdRef < MaxRequests
    /\ requestIdRef' = requestIdRef + 1
    /\ workers' = [workers EXCEPT ![1].inbox =
                     Append(@, [type |-> type, id |-> requestIdRef + 1,
                                payload |-> input])]
    /\ lastEvent' = "post"
    /\ UNCHANGED <<workerRef, result, loading, error, lastApplied, cancelled,
                   diffVars, demoVars, normVars, shareVars, uiVars>>

WorkerNext ==
    \/ \E type \in RequestTypes, input \in WorkerInputs :
          postMessage(type, input)
    \/ workerOnMessage(1)

WorkerSpec == WorkerInit /\ [][WorkerNext]_vars

\* C23: each time the worker handles a message of type 'compute' it posts
\* exactly one message of type 'result' or 'error', and every message it
\* posts for it carries the request's id; handling a message of any other
\* type posts nothing.
C23_WorkerProtocol ==
    [][\A k \in 1..Len(workers) :
         (/\ lastEvent' = "compute"
          /\ workers[k].inbox # <<>>
          /\ workers'[k].inbox = Tail(workers[k].inbox))
         => LET request == Head(workers[k].inbox)
                posted == SubSeq(workers'[k].outbox,
                                 Len(workers[k].outbox) + 1,
                                 Len(workers'[k].outbox))
                terminal == {n \in 1..Len(posted) :
                               posted[n].type \in {"result", "error"}}
            IN  /\ SubSeq(workers'[k].outbox, 1, Len(workers[k].outbox))
                     = workers[k].outbox
                /\ \A n \in 1..Len(posted) : posted[n].id = request.id
                /\ request.type = "compute" => Cardinality(terminal) = 1
                /\ request.type # "compute" => posted = <<>>]_vars

\* Three messages were posted and handled; the second was answered by
\* nothing, the first by a result and the third by an error.
C23_Witness ==
    /\ requestIdRef = 3
    /\ workers[1].inbox = <<>>
    /\ workers[1].outbox = << [type |-> "result", id |-> 1],
                              [type |-> "error", id |-> 3] >>

\* generateDemoResult runs to its end: the loop is sequential code, so a
\* step that can be taken is taken.
FairSpec == Spec /\ WF_vars(Next)

\* C24: generateDiffLines terminates on every pair of inputs. Each iteration
\* advances the original index, the modified index or both without passing
\* the ends, so there are at most n + m iterations, and the lines emitted
\* are at least max(n, m) and at most n + m.
C24_Terminates ==
    /\ [][(pc = "loop" /\ pc' = "loop") =>
            /\ i' >= i /\ j' >= j
            /\ i' + j' > i + j
            /\ i' <= Len(originalLines) /\ j' <= Len(modifiedLines)]_vars
    /\ [](pc = "loop" =>
            /\ Len(lines) >= Max(i, j)
            /\ Len(lines) <= i + j)
    /\ [](Done =>
            /\ Len(lines) >= Max(Len(originalLines), Len(modifiedLines))
            /\ Len(lines) <= Len(originalLines) + Len(modifiedLines))
    /\ <>Done

\* A finished diff that emitted exactly n + m lines for n, m >= 2: the
\* extreme where no line is paired.
C24_Witness ==
    /\ Done
    /\ Len(originalLines) >= 2
    /\ Len(modifiedLines) >= 2
    /\ Len(lines) = Len(originalLines) + Len(modifiedLines)

\* C25: after any sequence of enterDemo, exitDemo, selectScenario and
\* updateOptions calls, diffResult is non-null exactly when activeScenario
\* is, it is then generateDemoResult of the active scenario's texts, and
\* isDemo implies that a scenario is active.
C25_ResultMatchesScenario ==
    /\ (diffResult # Null) <=> (activeScenario # Null)
    /\ activeScenario # Null =>
          /\ diffResult.lines =
                generateDiffLines(activeScenario.original,
                                  activeScenario.modified)
          /\ diffResult.stats =
                calculateDiffStats(diffResult.lines,
                                   Len(Split(activeScenario.original)),
                                   Len(Split(activeScenario.modified)))
    /\ isDemo => activeScenario # Null

\* The demo was entered and left, and a scenario other than the first was
\* selected afterwards.
C25_Witness ==
    /\ ~isDemo
    /\ activeScenario # Null
    /\ activeScenario.id = "py-processing"
    /\ Len(diffResult.lines) = 3

C27_OptionsFrame ==
    [][/\ \A partial \in PartialOptions :
             updateOptions(partial) =>
               /\ \A k \in DOMAIN partial : options'[k] = partial[k]
               /\ \A k \in OptionFields \ DOMAIN partial :
                     options'[k] = options[k]
       /\ options' # options =>
             /\ isDemo' = isDemo
             /\ activeScenario' = activeScenario
             /\ diffResult' = diffResult
       /\ (isDemo /\ ~isDemo') =>
             /\ activeScenario' = Null
             /\ diffResult' = Null
             /\ options' = options]_vars

\* The demo is not active, nothing is selected, and the options differ from
\* the defaults in two fields.
C27_Witness ==
    /\ ~isDemo
    /\ activeScenario = Null
    /\ diffResult = Null
    /\ options = [DEMO_DIFF_OPTIONS EXCEPT !.ignoreCase = TRUE,
                                          !.granularity = "word"]

\* ---------------------------------------------------------------- DemoPage

MaxEnterCalls == 4   \* most enterDemo calls the effect is followed through

\* searchParams.get('scenario'): absent, a known id, an unknown id, empty
SearchParams ==
    {Null} \cup {[value |-> id] : id \in ScenarioIds \cup {"unknown", ""}}

\* activeScenario?.id
ActiveId ==
    IF activeScenario = Null THEN Null ELSE [value |-> activeScenario.id]

\* The effect's dependencies that can change: searchParams, isDemo and
\* activeScenario?.id (enterDemo is a stable callback).
Deps == [searchParams |-> searchParam, isDemo |-> isDemo,
         activeId |-> ActiveId]

PageInit ==
    /\ DiffIdle /\ DemoIdle /\ NormIdle /\ ShareIdle /\ HookIdle /\ ViewIdle
    /\ searchParam \in SearchParams
    /\ lastDeps = Null
    /\ enterCalls = 0

\* The effect of DemoPage runs: after the first render, and after every
\* render in which one of its dependencies has changed.
DemoPageEffect ==
    /\ lastDeps # Deps
    /\ lastDeps' = Deps
    /\ LET truthy == searchParam # Null /\ searchParam.value # ""
       IN  IF ~isDemo THEN
               /\ enterCalls < MaxEnterCalls
               /\ EnterDemoState(IF truthy THEN searchParam.value
                                 ELSE "undefined")
               /\ enterCalls' = enterCalls + 1
           ELSE IF truthy /\ ActiveId # searchParam THEN
               /\ enterCalls < MaxEnterCalls
               /\ EnterDemoState(searchParam.value)
               /\ enterCalls' = enterCalls + 1
           ELSE UNCHANGED <<demoVars, enterCalls>>
    /\ UNCHANGED <<searchParam, viewVars, diffVars, normVars, shareVars,
                   hookVars>>

\* DemoSidebar.handleScenarioSelect(scenario): the scenario is selected and
\* the URL is replaced by /demo?scenario=<id>. The sidebar is on screen
\* once a scenario is active.
handleScenarioSelect(scenarioId) ==
    /\ activeScenario # Null
    /\ SelectScenarioState(scenarioId)
    /\ searchParam' = [value |-> scenarioId]
    /\ UNCHANGED <<lastDeps, enterCalls, viewVars, diffVars, normVars,
                   shareVars, hookVars>>

\* The sidebar's option controls: one field per change.
SidebarOptions ==
    {p \in PartialOptions :
       Cardinality(DOMAIN p) = 1 /\ "ignoreBlankLines" \notin DOMAIN p}
handleOptionChange(newOptions) ==
    /\ activeScenario # Null
    /\ updateOptions(newOptions)

PageNext ==
    \/ DemoPageEffect
    \/ \E scenarioId \in ScenarioIds : handleScenarioSelect(scenarioId)
    \/ \E newOptions \in SidebarOptions : handleOptionChange(newOptions)

\* React runs an effect whose dependencies changed after the render.
PageSpec == PageInit /\ [][PageNext]_vars /\ WF_vars(DemoPageEffect)

\* The scenario the page is to show for the query parameter
ExpectedScenario ==
    IF searchParam # Null /\ Find(searchParam.value) # Null
    THEN Find(searchParam.value) ELSE DEMO_SCENARIOS[1]

\* The effect has run for the current dependencies.
Settled == lastDeps = Deps

\* C28: for every value of the 'scenario' query parameter the effect calls
\* enterDemo at most twice and then stops; whenever it has stopped isDemo is
\* true and activeScenario is the scenario with the parameter's id, or the
\* first entry of DEMO_SCENARIOS when there is none.
C28_EffectStabilises ==
    /\ [](enterCalls <= 2)
    /\ [](Settled => isDemo /\ activeScenario = ExpectedScenario)
    /\ []<>Settled

\* The page was opened with an unknown scenario id; the effect has called
\* enterDemo twice and stopped with the first scenario active.
C28_Witness ==
    /\ Settled
    /\ enterCalls = 2
    /\ searchParam = [value |-> "unknown"]
    /\ activeScenario = DEMO_SCENARIOS[1]

\* ---------------------------------------------------------------- SplitView

MaxViewLines == 4   \* most diff lines handed to SplitView

LineTypes == {"add", "remove", "unchanged"}

\* The k-th line of a list: its content tells it from the others.
ViewLine(t, k) ==
    [type |-> t, content |-> <<DigitChars[k + 1]>>,
     lineNumbers |-> IF t = "add" THEN [right |-> k]
                     ELSE IF t = "remove" THEN [left |-> k]
                     ELSE [left |-> k, right |-> k]]
ViewLineLists ==
    UNION {{[k \in 1..n |-> ViewLine(ts[k], k)] : ts \in [1..n -> LineTypes]} :
              n \in 0..MaxViewLines}

\* SplitView({ lines }) is entered: both columns are empty.
ViewInit ==
    /\ DemoIdle /\ NormIdle /\ ShareIdle /\ HookIdle /\ PageIdle
    /\ original = <<>>
    /\ modified = <<>>
    /\ originalLines = <<>>
    /\ modifiedLines = <<>>
    /\ pc = "split"
    /\ i = 0
    /\ j = 0
    /\ leftLine = 1
    /\ rightLine = 1
    /\ lines \in ViewLineLists
    /\ stats = NoStats
    /\ args = <<0, 0>>
    /\ leftLines = <<>>
    /\ rightLines = <<>>

InSplitLoop == pc = "split" /\ i < Len(lines)
ViewFrame ==
    UNCHANGED <<inputs, pc, j, leftLine, rightLine, lines, stats, args,
                pageVars, demoVars, normVars, shareVars, hookVars>>

\* line.type === 'unchanged'
SplitUnchanged ==
    /\ InSplitLoop
    /\ lines[i + 1].type = "unchanged"
    /\ leftLines' = Append(leftLines, lines[i + 1])
    /\ rightLines' = Append(rightLines, lines[i + 1])
    /\ i' = i + 1
    /\ ViewFrame

\* Mutant of SplitRemovePaired: the paired add line is not skipped.
SplitRemovePairedNoSkip ==
    /\ pc = "split" /\ i < Len(lines)
    /\ lines[i + 1].type = "remove"
    /\ i + 2 <= Len(lines)
    /\ lines[i + 2].type = "add"
    /\ leftLines' = Append(leftLines, lines[i + 1])
    /\ rightLines' = Append(rightLines, lines[i + 2])
    /\ i' = i + 1
    /\ ViewFrame

\* line.type === 'remove' and the next line is an add: one row for both
SplitRemovePaired ==
    /\ InSplitLoop
    /\ lines[i + 1].type = "remove"
    /\ i + 2 <= Len(lines)
    /\ lines[i + 2].type = "add"
    /\ leftLines' = Append(leftLines, lines[i + 1])
    /\ rightLines' = Append(rightLines, lines[i + 2])
    /\ i' = i + 2
    /\ ViewFrame

\* line.type === 'remove' and no add follows
SplitRemoveAlone ==
    /\ InSplitLoop
    /\ lines[i + 1].type = "remove"
    /\ ~(i + 2 <= Len(lines) /\ lines[i + 2].type = "add")
    /\ leftLines' = Append(leftLines, lines[i + 1])
    /\ rightLines' = Append(rightLines, Null)
    /\ i' = i + 1
    /\ ViewFrame

\* line.type === 'add'
SplitAdd ==
    /\ InSplitLoop
    /\ lines[i + 1].type = "add"
    /\ leftLines' = Append(leftLines, Null)
    /\ rightLines' = Append(rightLines, lines[i + 1])
    /\ i' = i + 1
    /\ ViewFrame

\* The loop has ended: the columns are rendered.
SplitViewReturn ==
    /\ pc = "split"
    /\ ~(i < Len(lines))
    /\ pc' = "done"
    /\ UNCHANGED <<inputs, i, j, leftLine, rightLine, lines, stats, args,
                   uiVars, demoVars, normVars, shareVars, hookVars>>

ViewNext ==
    \/ SplitUnchanged
    \/ SplitRemovePaired
    \/ SplitRemoveAlone
    \/ SplitAdd
    \/ SplitViewReturn

ViewSpec == ViewInit /\ [][ViewNext]_vars

\* The cells of a column that hold a line
Cells(column) == SelectSeq(column, LAMBDA c : c # Null)
OfTypes(ls, types) == SelectSeq(ls, LAMBDA l : l.type \in types)

\* C29: the two columns SplitView builds have the same number of rows; the
\* non-empty left cells are the remove and unchanged lines in list order,
\* the non-empty right cells the add and unchanged lines in list order; and
\* a remove line shares its row with an add line only if that add line is
\* the next line of the list.
C29_SplitAlignment ==
    /\ pc \in {"split", "done"} => Len(leftLines) = Len(rightLines)
    /\ Done =>
         /\ Cells(leftLines) = OfTypes(lines, {"remove", "unchanged"})
         /\ Cells(rightLines) = OfTypes(lines, {"add", "unchanged"})
         /\ \A r \in 1..Len(leftLines) :
              (/\ leftLines[r] # Null
               /\ rightLines[r] # Null
               /\ leftLines[r].type = "remove")
              => \E k \in 1..(Len(lines) - 1) :
                    /\ lines[k] = leftLines[r]
                    /\ lines[k + 1] = rightLines[r]
                    /\ lines[k + 1].type = "add"

\* A rendered list with a remove on its own, a remove paired with the add
\* after it, and an add on its own.
C29_Witness ==
    /\ Done
    /\ Len(lines) = 4
    /\ lines[1].type = "remove" /\ lines[2].type = "remove"
    /\ lines[3].type = "add" /\ lines[4].type = "add"
    /\ Len(leftLines) = 3
    /\ leftLines[3] = Null
    /\ rightLines[1] = Null

\* ------------------------------------------- useWorker: cancel, then execute

\* Each worker runs on its own thread and the main thread's event loop keeps
\* dispatching the messages posted to it; the calls the component makes
\* (execute, cancel, a re-run of the effect) are under no such obligation.
HookFairSpec ==
    /\ HookSpec
    /\ \A k \in 1..MaxWorkers :
          /\ WF_vars(k <= Len(workers) /\ workerOnMessage(k))
          /\ WF_vars(k <= Len(workers) /\ hookOnMessage(k))

\* Request r ended: loading is off and result or error comes from r.
Ended(r) ==
    /\ ~loading
    /\ \/ result = [from |-> r]
       \/ error = [message |-> r]

\* Request r is the latest and was sent to worker k, which is still current.
Pending(r, k) == requestIdRef = r /\ workerRef = [worker |-> k]

\* C30: once cancel() has put worker k in place, an execute(input) sent to k
\* eventually ends with loading = false and result or error set from that
\* request's response, unless a later call (execute, cancel, a re-run of the
\* effect) takes its place first.
C30_CancelKeepsHookWorking ==
    \A k \in 1..MaxWorkers, r \in 1..MaxRequests :
        []((lastEvent = "cancel" /\ workerRef = [worker |-> k])
             => []((lastEvent = "execute" /\ Pending(r, k))
                     => <>(Ended(r) \/ ~Pending(r, k))))

====
